---------------------------- MODULE Spec2Model ----------------------------
(***************************************************************************)
(* A model of drogon's RedisConnection (nosql_lib/redis/src/               *)
(* RedisConnection.cc): one asynchronous connection to a redis server,     *)
(* driven by a trantor EventLoop (the reactor) and the hiredis async       *)
(* context (the protocol engine).                                          *)
(*                                                                         *)
(* The members of RedisConnection are variables of the same name.  The     *)
(* hiredis context the member redisContext_ points to is the record ac;    *)
(* the hiredis entry points the source calls (redisAsyncConnect,           *)
(* redisAsyncSetConnectCallback, redisAsyncHandleRead/Write,               *)
(* redisAsyncFormattedCommand, redisAsyncDisconnect) are operators that    *)
(* follow hiredis' async.c, because the source's callbacks run nested in   *)
(* them.  A handler is one action; the nested calls it makes are operators *)
(* from a state record to a state record.                                  *)
(*                                                                         *)
(* A continuation is identified by the number of the sendCommandInloop     *)
(* call that enqueued it.  Continuations and lifecycle handlers are user   *)
(* code: they do not call back into the connection; a continuation         *)
(* returns or throws; their invocations are recorded in logs.              *)
(***************************************************************************)
EXTENDS Integers, Sequences, FiniteSets, TLC

\* Bounds of the model.
MaxCmds == 3          \* sendCommandInloop calls in one run
MaxDisconnects == 2   \* disconnect() calls in one run, each from its own thread
MaxBatch == 2         \* replies decoded by one readable event
MaxThrows == 1        \* continuations that throw in one run
MaxLoopDisconnects == 1  \* disconnect() calls made on the loop thread in one run

VARIABLES
    connected_,           \* ConnectStatus connected_
    channel_,             \* std::unique_ptr<trantor::Channel> channel_
    commandCallbacks_,    \* std::queue of success continuations
    exceptionCallbacks_,  \* std::queue of failure continuations
    redisContext_,        \* redisAsyncContext *redisContext_: "null" or "ctx"
    ac,                   \* the hiredis context redisContext_ points to
    connectCalls,         \* log: invocations of connectCallback_
    disconnectCalls,      \* log: invocations of disconnectCallback_
    dispatchLog,          \* log: handleResult calls
    sendLog,              \* log: sendCommandInloop calls
    crashed,              \* the process died (failed assert, null dereference, fault)
    touchedFreed,         \* the calls made on the hiredis context after it was freed
    hookFault,            \* an interest-change hook ran without a channel
    writeEvents,          \* log: what handleRedisWrite found set and did first,
                          \* for the events with REDIS_DISCONNECTING set
    disconnectReqs,       \* log: runs of the functor of disconnect()
    pendingFunctors,      \* the functors queued on loop_
    callerPc,             \* position of each thread that calls disconnect()
    promise               \* std::promise<int> pro of each disconnect() call

vars == <<connected_, channel_, commandCallbacks_, exceptionCallbacks_,
          redisContext_, ac, connectCalls, disconnectCalls, dispatchLog,
          sendLog, crashed, touchedFreed, hookFault, writeEvents,
          disconnectReqs, pendingFunctors, callerPc, promise>>

Callers == 1..MaxDisconnects

\* The variables only the loop thread touches.
loopVars == <<connected_, channel_, commandCallbacks_, exceptionCallbacks_,
              redisContext_, ac, connectCalls, disconnectCalls, dispatchLog,
              sendLog, crashed, touchedFreed, hookFault, writeEvents,
              disconnectReqs>>

\* The state the reactor thread works on, as one record; unwinding says
\* that an exception thrown by a continuation is on its way up the stack.
St ==
    [connected_ |-> connected_, channel_ |-> channel_,
     commandCallbacks_ |-> commandCallbacks_,
     exceptionCallbacks_ |-> exceptionCallbacks_,
     redisContext_ |-> redisContext_, ac |-> ac,
     connectCalls |-> connectCalls, disconnectCalls |-> disconnectCalls,
     dispatchLog |-> dispatchLog, sendLog |-> sendLog,
     crashed |-> crashed, touchedFreed |-> touchedFreed,
     hookFault |-> hookFault, writeEvents |-> writeEvents,
     disconnectReqs |-> disconnectReqs, unwinding |-> FALSE]

Set(t) ==
    /\ connected_' = t.connected_
    /\ channel_' = t.channel_
    /\ commandCallbacks_' = t.commandCallbacks_
    /\ exceptionCallbacks_' = t.exceptionCallbacks_
    /\ redisContext_' = t.redisContext_
    /\ ac' = t.ac
    /\ connectCalls' = t.connectCalls
    /\ disconnectCalls' = t.disconnectCalls
    /\ dispatchLog' = t.dispatchLog
    /\ sendLog' = t.sendLog
    /\ crashed' = t.crashed
    /\ touchedFreed' = t.touchedFreed
    /\ hookFault' = t.hookFault
    /\ writeEvents' = t.writeEvents
    /\ disconnectReqs' = t.disconnectReqs

\* ConnectStatus: the value connected_ holds before any callback ran.
kNone == "kNone"

\* channel_ == nullptr
NullChannel == [set |-> FALSE, events |-> {}, inPoller |-> FALSE]

\* The outcomes of using the hiredis context after hiredis freed it: the
\* access faults, or the freed memory still holds its last contents and the
\* call runs on them; the second free at the end of such a call aborts in
\* the allocator or passes unnoticed.
UBOutcomes == {"crash", "stale_abort", "stale"}

\* A failed assert, a null dereference, a fault or std::terminate ends the
\* process.
Crash(s) == [s EXCEPT !.crashed = TRUE]

\* Nothing more of the running handler is executed: the process died, or an
\* exception is unwinding the stack.
Stopped(s) == s.crashed \/ s.unwinding

\* What a continuation does: it returns, or it throws.  Nothing between the
\* continuation and the loop catches; the exception ends the process
\* (std::terminate), or it unwinds through hiredis to the code that runs the
\* loop, which goes on.
Behaviours == {"return", "terminate", "unwind"}

--------------------------------------------------------------------------
\* handleDisconnect as it would be if it reset the state for a reconnect.
handleDisconnect_Reset(s) ==
    [s EXCEPT !.connected_ = kNone,
              !.channel_ = IF s.channel_.set THEN NullChannel ELSE @]

\* RedisConnection::handleDisconnect.
handleDisconnect(s) ==
    [s EXCEPT !.connected_ = "kEnd",
              !.channel_ = IF s.channel_.set THEN NullChannel ELSE @]

\* The connect callback as it would be if its failure branch only reported
\* the failure, without handleDisconnect.
connectCallback_NoTeardown(s, status) ==
    IF status # "REDIS_OK"
    THEN [s EXCEPT !.disconnectCalls =
              Append(@, [status |-> status, state |-> s.connected_,
                         chan |-> s.channel_.set,
                         before |-> <<s.commandCallbacks_, s.exceptionCallbacks_>>,
                         after |-> <<s.commandCallbacks_, s.exceptionCallbacks_>>])]
    ELSE LET t == [s EXCEPT !.connected_ = "kConnected"] IN
         [t EXCEPT !.connectCalls =
              Append(@, [status |-> status, state |-> t.connected_])]

\* The connect callback as it would be if it reported a failed connect to
\* the connect handler.
connectCallback_ConnectHandler(s, status) ==
    IF status # "REDIS_OK"
    THEN LET t == handleDisconnect(s) IN
         [t EXCEPT !.connectCalls =
              Append(@, [status |-> status, state |-> t.connected_])]
    ELSE LET t == [s EXCEPT !.connected_ = "kConnected"] IN
         [t EXCEPT !.connectCalls =
              Append(@, [status |-> status, state |-> t.connected_])]

\* The connect callback installed by startConnectionInLoop.
connectCallback(s, status) ==
    IF status # "REDIS_OK"
    THEN LET t == handleDisconnect(s) IN
         [t EXCEPT !.disconnectCalls =
              Append(@, [status |-> status, state |-> t.connected_,
                         chan |-> t.channel_.set,
                         before |-> <<s.commandCallbacks_, s.exceptionCallbacks_>>,
                         after |-> <<t.commandCallbacks_, t.exceptionCallbacks_>>])]
    ELSE LET t == [s EXCEPT !.connected_ = "kConnected"] IN
         [t EXCEPT !.connectCalls =
              Append(@, [status |-> status, state |-> t.connected_])]

\* The disconnect callback as it would be if it invoked the handler before
\* handleDisconnect.
disconnectCallback_HandlerFirst(s, status) ==
    LET t == [s EXCEPT !.disconnectCalls =
                 Append(@, [status |-> status, state |-> s.connected_,
                            chan |-> s.channel_.set,
                            before |-> <<s.commandCallbacks_, s.exceptionCallbacks_>>,
                            after |-> <<s.commandCallbacks_, s.exceptionCallbacks_>>])]
    IN  handleDisconnect(t)

\* The disconnect callback installed by startConnectionInLoop.
disconnectCallback(s, status) ==
    LET t == handleDisconnect(s) IN
    [t EXCEPT !.disconnectCalls =
         Append(@, [status |-> status, state |-> t.connected_,
                    chan |-> t.channel_.set,
                    before |-> <<s.commandCallbacks_, s.exceptionCallbacks_>>,
                    after |-> <<t.commandCallbacks_, t.exceptionCallbacks_>>])]

\* The interest-change hooks: assert(channel_), then one Channel call, which
\* (Channel::update) puts the channel in the poller.
addWrite(s) ==
    IF Stopped(s) THEN s
    ELSE IF ~s.channel_.set THEN Crash([s EXCEPT !.hookFault = TRUE])
    ELSE [s EXCEPT !.channel_.events = @ \cup {"W"}, !.channel_.inPoller = TRUE]

delWrite(s) ==
    IF Stopped(s) THEN s
    ELSE IF ~s.channel_.set THEN Crash([s EXCEPT !.hookFault = TRUE])
    ELSE [s EXCEPT !.channel_.events = @ \ {"W"}, !.channel_.inPoller = TRUE]

addRead(s) ==
    IF Stopped(s) THEN s
    ELSE IF ~s.channel_.set THEN Crash([s EXCEPT !.hookFault = TRUE])
    ELSE [s EXCEPT !.channel_.events = @ \cup {"R"}, !.channel_.inPoller = TRUE]

delRead(s) ==
    IF Stopped(s) THEN s
    ELSE IF ~s.channel_.set THEN Crash([s EXCEPT !.hookFault = TRUE])
    ELSE [s EXCEPT !.channel_.events = @ \ {"R"}, !.channel_.inPoller = TRUE]

\* handleResult as it would be if it popped each queue once more after
\* taking the front entries.
handleResult_PopTwice(s, replyOf, reply, th) ==
    IF Stopped(s) THEN s
    ELSE IF s.commandCallbacks_ = <<>> \/ s.exceptionCallbacks_ = <<>>
    THEN Crash(s)
    ELSE
    LET commandCallback == Head(s.commandCallbacks_)
        exceptionCallback == Head(s.exceptionCallbacks_)
        t == [s EXCEPT !.commandCallbacks_ =
                           IF Len(@) > 1 THEN Tail(Tail(@)) ELSE Tail(@),
                       !.exceptionCallbacks_ =
                           IF Len(@) > 1 THEN Tail(Tail(@)) ELSE Tail(@)]
        entry == [replyOf |-> replyOf, reply |-> reply,
                  popped |-> commandCallback, pending |-> Len(s.commandCallbacks_),
                  fired |-> "none", owner |-> 0, thrown |-> FALSE]
        Continue(u) == IF th = "return" THEN u
                       ELSE IF th = "terminate" THEN Crash(u)
                       ELSE [u EXCEPT !.unwinding = TRUE]
    IN  IF reply = "NULL"
        THEN Crash([t EXCEPT !.dispatchLog = Append(@, entry)])
        ELSE IF reply # "ERROR"
        THEN Continue([t EXCEPT !.dispatchLog =
                 Append(@, [entry EXCEPT !.fired = "success",
                                         !.owner = commandCallback,
                                         !.thrown = th # "return"])])
        ELSE Continue([t EXCEPT !.dispatchLog =
                 Append(@, [entry EXCEPT !.fired = "failure",
                                         !.owner = exceptionCallback,
                                         !.thrown = th # "return"])])

\* handleResult as it would be if it popped the two queues after the
\* continuation has returned.
handleResult_PopAfterCall(s, replyOf, reply, th) ==
    IF Stopped(s) THEN s
    ELSE IF s.commandCallbacks_ = <<>> \/ s.exceptionCallbacks_ = <<>>
    THEN Crash(s)                       \* front() of an empty std::queue
    ELSE
    LET commandCallback == Head(s.commandCallbacks_)
        exceptionCallback == Head(s.exceptionCallbacks_)
        t == IF th = "return" \/ reply = "NULL"
             THEN [s EXCEPT !.commandCallbacks_ = Tail(@),
                            !.exceptionCallbacks_ = Tail(@)]
             ELSE s
        entry == [replyOf |-> replyOf, reply |-> reply,
                  popped |-> commandCallback, pending |-> Len(s.commandCallbacks_),
                  fired |-> "none", owner |-> 0, thrown |-> FALSE]
        Continue(u) == IF th = "return" THEN u
                       ELSE IF th = "terminate" THEN Crash(u)
                       ELSE [u EXCEPT !.unwinding = TRUE]
    IN  IF reply = "NULL"
        THEN Crash([t EXCEPT !.dispatchLog = Append(@, entry)])  \* result->type
        ELSE IF reply # "ERROR"
        THEN Continue([t EXCEPT !.dispatchLog =
                 Append(@, [entry EXCEPT !.fired = "success",
                                         !.owner = commandCallback,
                                         !.thrown = th # "return"])])
        ELSE Continue([t EXCEPT !.dispatchLog =
                 Append(@, [entry EXCEPT !.fired = "failure",
                                         !.owner = exceptionCallback,
                                         !.thrown = th # "return"])])

\* handleResult as it would be if it popped the failure continuation only
\* when it invokes it.
handleResult_PopOnUse(s, replyOf, reply, th) ==
    IF Stopped(s) THEN s
    ELSE IF s.commandCallbacks_ = <<>> \/ s.exceptionCallbacks_ = <<>>
    THEN Crash(s)                       \* front() of an empty std::queue
    ELSE
    LET commandCallback == Head(s.commandCallbacks_)
        exceptionCallback == Head(s.exceptionCallbacks_)
        t == [s EXCEPT !.commandCallbacks_ = Tail(@),
                       !.exceptionCallbacks_ =
                           IF reply = "ERROR" THEN Tail(@) ELSE @]
        entry == [replyOf |-> replyOf, reply |-> reply,
                  popped |-> commandCallback, pending |-> Len(s.commandCallbacks_),
                  fired |-> "none", owner |-> 0, thrown |-> FALSE]
        Continue(u) == IF th = "return" THEN u
                       ELSE IF th = "terminate" THEN Crash(u)
                       ELSE [u EXCEPT !.unwinding = TRUE]
    IN  IF reply = "NULL"
        THEN Crash([t EXCEPT !.dispatchLog = Append(@, entry)])  \* result->type
        ELSE IF reply # "ERROR"
        THEN Continue([t EXCEPT !.dispatchLog =
                 Append(@, [entry EXCEPT !.fired = "success",
                                         !.owner = commandCallback,
                                         !.thrown = th # "return"])])
        ELSE Continue([t EXCEPT !.dispatchLog =
                 Append(@, [entry EXCEPT !.fired = "failure",
                                         !.owner = exceptionCallback,
                                         !.thrown = th # "return"])])

\* RedisConnection::handleResult, called by hiredis with the reply (or with
\* NULL) for the callback it registered for command replyOf; th is what the
\* continuation it invokes does.
handleResult(s, replyOf, reply, th) ==
    IF Stopped(s) THEN s
    ELSE IF s.commandCallbacks_ = <<>> \/ s.exceptionCallbacks_ = <<>>
    THEN Crash(s)                       \* front() of an empty std::queue
    ELSE
    LET commandCallback == Head(s.commandCallbacks_)
        exceptionCallback == Head(s.exceptionCallbacks_)
        t == [s EXCEPT !.commandCallbacks_ = Tail(@),
                       !.exceptionCallbacks_ = Tail(@)]
        entry == [replyOf |-> replyOf, reply |-> reply,
                  popped |-> commandCallback, pending |-> Len(s.commandCallbacks_),
                  fired |-> "none", owner |-> 0, thrown |-> FALSE]
        Continue(u) == IF th = "return" THEN u
                       ELSE IF th = "terminate" THEN Crash(u)
                       ELSE [u EXCEPT !.unwinding = TRUE]
    IN  IF reply = "NULL"
        THEN Crash([t EXCEPT !.dispatchLog = Append(@, entry)])  \* result->type
        ELSE IF reply # "ERROR"
        THEN Continue([t EXCEPT !.dispatchLog =
                 Append(@, [entry EXCEPT !.fired = "success",
                                         !.owner = commandCallback,
                                         !.thrown = th # "return"])])
        ELSE Continue([t EXCEPT !.dispatchLog =
                 Append(@, [entry EXCEPT !.fired = "failure",
                                         !.owner = exceptionCallback,
                                         !.thrown = th # "return"])])

--------------------------------------------------------------------------
\* hiredis, as the source uses it.  REDIS_CONNECTED, REDIS_DISCONNECTING and
\* REDIS_IN_CALLBACK are the bits of c.flags; replies is the list of reply callbacks hiredis
\* keeps, one per accepted command, each calling handleResult; obuf counts
\* the accepted commands not yet written to the socket.

\* The context redisAsyncConnect returns.
NewContext ==
    [flags |-> {}, err |-> FALSE, replies |-> <<>>, obuf |-> 0, freed |-> FALSE]

\* __redisRunCallback: the oldest reply callback is taken off the list and
\* run with REDIS_IN_CALLBACK set; the flag is cleared when the callback
\* returns, and stays set when an exception leaves it.
runCallback(s, reply, th) ==
    LET t == handleResult([s EXCEPT !.ac.replies = Tail(@),
                                    !.ac.flags = @ \cup {"IN_CALLBACK"}],
                          Head(s.ac.replies), reply, th)
    IN  IF Stopped(t) THEN t
        ELSE [t EXCEPT !.ac.flags = @ \ {"IN_CALLBACK"}]

\* __redisAsyncFree runs every pending reply callback with a NULL reply.
RECURSIVE runPendingWithNull(_)
runPendingWithNull(s) ==
    IF Stopped(s) \/ s.ac.replies = <<>> THEN s
    ELSE runPendingWithNull(runCallback(s, "NULL", "return"))

\* __redisAsyncFree: pending callbacks get NULL, then the disconnect callback
\* runs if the context was connected, then the context is freed.
asyncFree(s, ub) ==
    LET t1 == runPendingWithNull(s)
        t2 == IF Stopped(t1) \/ "CONNECTED" \notin t1.ac.flags THEN t1
              ELSE disconnectCallback(
                       t1, IF t1.ac.err THEN "REDIS_ERR" ELSE "REDIS_OK")
    IN  IF Stopped(t2) THEN t2
        ELSE IF t2.ac.freed
        THEN (IF ub = "stale_abort" THEN Crash(t2) ELSE t2)   \* freed twice
        ELSE [t2 EXCEPT !.ac.freed = TRUE]

\* __redisAsyncDisconnect.
asyncDisconnectInternal(s, ub) ==
    IF Stopped(s) THEN s
    ELSE IF s.ac.err
    THEN asyncFree([s EXCEPT !.ac.flags = @ \cup {"DISCONNECTING"}], ub)
    ELSE IF s.ac.replies # <<>> THEN Crash(s)   \* hiredis' assert
    ELSE asyncFree(s, ub)

\* redisAsyncDisconnect: the disconnect is carried out at once only when no
\* reply is pending and the context is not marked as inside a callback;
\* otherwise the flag is left for redisProcessCallbacks.
redisAsyncDisconnect(s, ub) ==
    LET t == [s EXCEPT !.ac.flags = @ \cup {"DISCONNECTING"}] IN
    IF t.ac.replies = <<>> /\ "IN_CALLBACK" \notin t.ac.flags
    THEN asyncDisconnectInternal(t, ub) ELSE t

\* redisAsyncFormattedCommand: refused once the context is disconnecting;
\* otherwise the reply callback is registered, the command goes to the
\* output buffer and write interest is requested.
redisAsyncFormattedCommand(s, id) ==
    IF "DISCONNECTING" \in s.ac.flags THEN s
    ELSE addWrite([s EXCEPT !.ac.replies = Append(@, id), !.ac.obuf = @ + 1])

\* redisProcessCallbacks: one callback per decoded reply; when no reply is
\* left and the context is disconnecting with nothing pending, it disconnects.
RECURSIVE redisProcessCallbacks(_, _, _)
redisProcessCallbacks(s, rs, th) ==
    IF Stopped(s) THEN s
    ELSE IF rs = <<>>
    THEN (IF "DISCONNECTING" \in s.ac.flags /\ s.ac.obuf = 0
             /\ s.ac.replies = <<>>
          THEN asyncDisconnectInternal(s, "stale") ELSE s)
    ELSE redisProcessCallbacks(runCallback(s, Head(rs), Head(th)),
                               Tail(rs), Tail(th))

\* redisBufferWrite and what redisAsyncHandleWrite does with its result.
bufferWrite(s, out) ==
    IF Stopped(s) THEN s
    ELSE IF out = "ioerr"
    THEN asyncDisconnectInternal([s EXCEPT !.ac.err = TRUE], "stale")
    ELSE IF out = "again" THEN addRead(addWrite(s))
    ELSE addRead(delWrite([s EXCEPT !.ac.obuf = 0]))

\* redisBufferRead and what redisAsyncHandleRead does with its result.
bufferRead(s, out) ==
    IF Stopped(s) THEN s
    ELSE IF out.kind = "ioerr"
    THEN asyncDisconnectInternal([s EXCEPT !.ac.err = TRUE], "stale")
    ELSE redisProcessCallbacks(addRead(s), out.rs, out.th)

\* redisAsyncHandleWrite: the first event on a context that is not yet
\* connected settles the connect (__redisAsyncHandleConnect).
redisAsyncHandleWrite(s, out) ==
    IF "CONNECTED" \in s.ac.flags THEN bufferWrite(s, out)
    ELSE IF out = "inprogress" THEN s
    ELSE IF out = "connfail"
    THEN asyncDisconnectInternal(
             connectCallback([s EXCEPT !.ac.err = TRUE], "REDIS_ERR"), "stale")
    ELSE bufferWrite(
             connectCallback([s EXCEPT !.ac.flags = @ \cup {"CONNECTED"}],
                             "REDIS_OK"), out)

\* redisAsyncHandleRead.
redisAsyncHandleRead(s, out) ==
    IF "CONNECTED" \in s.ac.flags THEN bufferRead(s, out)
    ELSE IF out.kind = "inprogress" THEN s
    ELSE IF out.kind = "connfail"
    THEN asyncDisconnectInternal(
             connectCallback([s EXCEPT !.ac.err = TRUE], "REDIS_ERR"), "stale")
    ELSE bufferRead(
             connectCallback([s EXCEPT !.ac.flags = @ \cup {"CONNECTED"}],
                             "REDIS_OK"), out)

--------------------------------------------------------------------------
\* startConnectionInLoop as it would be if it installed the connect callback
\* before it created the channel.
startConnectionInLoop_CallbackFirst(s) ==
    IF s.redisContext_ # "null" THEN Crash(s)
    ELSE LET t == addWrite([s EXCEPT !.redisContext_ = "ctx",
                                     !.ac = NewContext])
         IN  IF Stopped(t) THEN t
             ELSE [t EXCEPT !.channel_ = [set |-> TRUE, events |-> {},
                                          inPoller |-> FALSE]]

\* RedisConnection::startConnectionInLoop.  redisAsyncSetConnectCallback
\* requests write interest (the addWrite hook) to learn when the connect
\* has settled.
startConnectionInLoop(s) ==
    IF s.redisContext_ # "null" THEN Crash(s)       \* assert(!redisContext_)
    ELSE addWrite([s EXCEPT !.redisContext_ = "ctx",
                            !.ac = NewContext,
                            !.channel_ = [set |-> TRUE, events |-> {},
                                          inPoller |-> FALSE]])

\* RedisConnection::handleRedisRead.
handleRedisRead(s, out) == redisAsyncHandleRead(s, out)

\* RedisConnection::handleRedisWrite.
handleRedisWrite(s, out) ==
    LET removed == s.ac.flags = {"DISCONNECTING"}
        t == IF removed
             THEN [s EXCEPT !.channel_.events = {}, !.channel_.inPoller = FALSE]
             ELSE s
    IN  redisAsyncHandleWrite(
            [t EXCEPT !.writeEvents =
                 IF "DISCONNECTING" \in s.ac.flags
                 THEN @ \cup {[flags |-> s.ac.flags, removed |-> removed]}
                 ELSE @], out)

\* sendCommandInloop as it would be if the queues were filled at the front.
sendCommandInloop_Lifo(s, ub) ==
    LET id == Len(s.sendLog) + 1
        ctx == IF s.redisContext_ = "null" THEN "null"
               ELSE IF s.ac.freed THEN "freed" ELSE "live"
        t == [s EXCEPT !.commandCallbacks_ = <<id>> \o @,
                       !.exceptionCallbacks_ = <<id>> \o @]
        u == IF ctx = "null" THEN Crash(t)
             ELSE IF ctx = "freed"
             THEN (IF ub = "crash"
                   THEN Crash([t EXCEPT !.touchedFreed = @ \cup {"send"}])
                   ELSE redisAsyncFormattedCommand(
                            [t EXCEPT !.touchedFreed = @ \cup {"send"}], id))
             ELSE redisAsyncFormattedCommand(t, id)
    IN  [u EXCEPT !.sendLog =
             Append(@, [state |-> s.connected_, ctx |-> ctx,
                        accepted |-> Len(u.ac.replies) > Len(s.ac.replies)])]

\* RedisConnection::sendCommandInloop.  The call on redisContext_ is a null
\* dereference before setup and a use of freed memory after hiredis freed
\* the context.
sendCommandInloop(s, ub) ==
    LET id == Len(s.sendLog) + 1
        ctx == IF s.redisContext_ = "null" THEN "null"
               ELSE IF s.ac.freed THEN "freed" ELSE "live"
        t == [s EXCEPT !.commandCallbacks_ = Append(@, id),
                       !.exceptionCallbacks_ = Append(@, id)]
        u == IF ctx = "null" THEN Crash(t)
             ELSE IF ctx = "freed"
             THEN (IF ub = "crash"
                   THEN Crash([t EXCEPT !.touchedFreed = @ \cup {"send"}])
                   ELSE redisAsyncFormattedCommand(
                            [t EXCEPT !.touchedFreed = @ \cup {"send"}], id))
             ELSE redisAsyncFormattedCommand(t, id)
    IN  [u EXCEPT !.sendLog =
             Append(@, [state |-> s.connected_, ctx |-> ctx,
                        accepted |-> Len(u.ac.replies) > Len(s.ac.replies)])]

\* The functor disconnect() hands to runInLoop, up to pro.set_value(1), run
\* for the disconnect() call of thread who (0 is the loop thread).
disconnectInLoop(s, who, ub) ==
    LET ctx == IF s.redisContext_ = "null" THEN "null"
               ELSE IF s.ac.freed THEN "freed" ELSE "live"
        t == [s EXCEPT !.disconnectReqs =
                 Append(@, [who |-> who, ctx |-> ctx, state |-> s.connected_,
                            pending |-> Len(s.ac.replies),
                            inCallback |-> "IN_CALLBACK" \in s.ac.flags])]
    IN  IF ctx = "null" THEN Crash(t)
        ELSE IF ctx = "freed"
        THEN (IF ub = "crash"
              THEN Crash([t EXCEPT !.touchedFreed = @ \cup {"disconnect"}])
              ELSE redisAsyncDisconnect(
                       [t EXCEPT !.touchedFreed = @ \cup {"disconnect"}], ub))
        ELSE redisAsyncDisconnect(t, ub)

--------------------------------------------------------------------------
\* The constructor as it would be if it ran startConnectionInLoop itself
\* (runInLoop on the loop thread) instead of queueing it.
Init_Inline ==
    /\ connected_ = kNone
    /\ channel_ = [set |-> TRUE, events |-> {"W"}, inPoller |-> TRUE]
    /\ commandCallbacks_ = <<>>
    /\ exceptionCallbacks_ = <<>>
    /\ redisContext_ = "ctx"
    /\ ac = NewContext
    /\ connectCalls = <<>>
    /\ disconnectCalls = <<>>
    /\ dispatchLog = <<>>
    /\ sendLog = <<>>
    /\ crashed = FALSE
    /\ touchedFreed = {}
    /\ hookFault = FALSE
    /\ writeEvents = {}
    /\ disconnectReqs = <<>>
    /\ pendingFunctors = <<>>
    /\ callerPc = [c \in Callers |-> "idle"]
    /\ promise = [c \in Callers |-> FALSE]

\* RedisConnection::RedisConnection: the members are default-initialised and
\* startConnectionInLoop is queued on the loop.
Init ==
    /\ connected_ = kNone
    /\ channel_ = NullChannel
    /\ commandCallbacks_ = <<>>
    /\ exceptionCallbacks_ = <<>>
    /\ redisContext_ = "null"
    /\ ac = NewContext
    /\ connectCalls = <<>>
    /\ disconnectCalls = <<>>
    /\ dispatchLog = <<>>
    /\ sendLog = <<>>
    /\ crashed = FALSE
    /\ touchedFreed = {}
    /\ hookFault = FALSE
    /\ writeEvents = {}
    /\ disconnectReqs = <<>>
    /\ pendingFunctors = <<[kind |-> "start", who |-> 0, early |-> FALSE]>>
    /\ callerPc = [c \in Callers |-> "idle"]
    /\ promise = [c \in Callers |-> FALSE]

\* The loop runs the functor the constructor queued.
RunStartConnection ==
    /\ ~crashed
    /\ pendingFunctors # <<>>
    /\ Head(pendingFunctors).kind = "start"
    /\ Set(startConnectionInLoop(St))
    /\ pendingFunctors' = Tail(pendingFunctors)
    /\ UNCHANGED <<callerPc, promise>>

\* The functor of disconnect() as it would be without pro.set_value(1).
RunDisconnect_NoSetValue ==
    /\ ~crashed
    /\ pendingFunctors # <<>>
    /\ Head(pendingFunctors).kind = "disc"
    /\ \E ub \in UBOutcomes :
          LET t == disconnectInLoop(St, Head(pendingFunctors).who, ub) IN
          /\ Set(t)
          /\ promise' = promise
    /\ pendingFunctors' = Tail(pendingFunctors)
    /\ UNCHANGED callerPc

\* The loop runs the functor a disconnect() call queued.
RunDisconnect ==
    /\ ~crashed
    /\ pendingFunctors # <<>>
    /\ Head(pendingFunctors).kind = "disc"
    /\ \E ub \in UBOutcomes :
          LET t == disconnectInLoop(St, Head(pendingFunctors).who, ub) IN
          /\ Set(t)
          /\ promise' = IF t.crashed THEN promise
                        ELSE [promise EXCEPT ![Head(pendingFunctors).who] = TRUE]
    /\ pendingFunctors' = Tail(pendingFunctors)
    /\ UNCHANGED callerPc

\* What a writable event can find: the connect still in progress, the
\* connect failed, the output buffer written out, written in part, or a
\* write error.
WriteOutcomes ==
    IF "CONNECTED" \in ac.flags
    THEN {"done", "ioerr"} \cup (IF ac.obuf > 0 THEN {"again"} ELSE {})
    ELSE {"inprogress", "connfail", "done", "ioerr"}
              \cup (IF ac.obuf > 0 THEN {"again"} ELSE {})

\* The reply types the server can have answered with.
ReplyTypes == {"OK", "ERROR"}

\* The sequences of at most n reply types.
ReplySeqs(n) == UNION {[1..k -> ReplyTypes] : k \in 0..n}

Min(a, b) == IF a < b THEN a ELSE b

\* What a readable event can find: a read error or end of stream, or the
\* replies to some of the commands already written, oldest first.
\* Every continuation returns.
ReadOutcomes ==
    {[kind |-> k, rs |-> <<>>, th |-> <<>>] :
        k \in {"ioerr"} \cup (IF "CONNECTED" \in ac.flags THEN {}
                              ELSE {"inprogress", "connfail"})}
    \cup {[kind |-> "data", rs |-> r, th |-> [i \in 1..Len(r) |-> "return"]] :
             r \in ReplySeqs(Min(MaxBatch, Len(ac.replies) - ac.obuf))}

\* A readable event whose replies are dispatched until a continuation throws.
ThrowOutcomes ==
    {[kind |-> "data", rs |-> r,
      th |-> [i \in 1..Len(r) |-> IF i = Len(r) THEN b ELSE "return"]] :
         r \in ReplySeqs(Min(MaxBatch, Len(ac.replies) - ac.obuf)) \ {<<>>},
         b \in Behaviours \ {"return"}}

\* The poller reports the channel's socket writable.
HandleRedisWrite ==
    /\ ~crashed
    /\ channel_.set /\ channel_.inPoller /\ "W" \in channel_.events
    /\ ~ac.freed
    /\ \E out \in WriteOutcomes : Set(handleRedisWrite(St, out))
    /\ UNCHANGED <<pendingFunctors, callerPc, promise>>

\* The poller reports the channel's socket readable.
HandleRedisRead ==
    /\ ~crashed
    /\ channel_.set /\ channel_.inPoller /\ "R" \in channel_.events
    /\ ~ac.freed
    /\ \E out \in ReadOutcomes : Set(handleRedisRead(St, out))
    /\ UNCHANGED <<pendingFunctors, callerPc, promise>>

\* The poller reports the channel's socket readable and a continuation run
\* for one of the replies throws.
HandleRedisReadThrows ==
    /\ ~crashed
    /\ channel_.set /\ channel_.inPoller /\ "R" \in channel_.events
    /\ ~ac.freed
    /\ Cardinality({k \in DOMAIN dispatchLog : dispatchLog[k].thrown}) < MaxThrows
    /\ \E out \in ThrowOutcomes : Set(handleRedisRead(St, out))
    /\ UNCHANGED <<pendingFunctors, callerPc, promise>>

\* User code on the loop thread calls sendCommandInloop.
SendCommand ==
    /\ ~crashed
    /\ Len(sendLog) < MaxCmds
    /\ \E ub \in UBOutcomes : Set(sendCommandInloop(St, ub))
    /\ UNCHANGED <<pendingFunctors, callerPc, promise>>

\* disconnect() as it would be if its functor were put at the front of the
\* loop's queue.
DisconnectCall_Front(c) ==
    /\ ~crashed
    /\ callerPc[c] = "idle"
    /\ \A d \in Callers : d < c => callerPc[d] # "idle"
    /\ callerPc' = [callerPc EXCEPT ![c] = "waiting"]
    /\ pendingFunctors' =
           <<[kind |-> "disc", who |-> c, early |-> redisContext_ = "null"]>>
               \o pendingFunctors
    /\ UNCHANGED <<loopVars, promise>>

\* A thread other than the loop's calls disconnect(): runInLoop queues the
\* functor and the thread blocks in f.get().  early says that the call was
\* made before startConnectionInLoop had run.
DisconnectCall(c) ==
    /\ ~crashed
    /\ callerPc[c] = "idle"
    /\ \A d \in Callers : d < c => callerPc[d] # "idle"
    /\ callerPc' = [callerPc EXCEPT ![c] = "waiting"]
    /\ pendingFunctors' =
           Append(pendingFunctors, [kind |-> "disc", who |-> c,
                                    early |-> redisContext_ = "null"])
    /\ UNCHANGED <<loopVars, promise>>

\* disconnect() as it would be without f.get().
DisconnectReturn_NoWait(c) ==
    /\ ~crashed
    /\ callerPc[c] = "waiting"
    /\ callerPc' = [callerPc EXCEPT ![c] = "returned"]
    /\ UNCHANGED <<loopVars, promise, pendingFunctors>>

\* f.get() returns once the promise is set, and disconnect() returns.
DisconnectReturn(c) ==
    /\ ~crashed
    /\ callerPc[c] = "waiting"
    /\ promise[c]
    /\ callerPc' = [callerPc EXCEPT ![c] = "returned"]
    /\ UNCHANGED <<loopVars, promise, pendingFunctors>>

\* Code on the loop thread calls disconnect(): runInLoop runs the functor
\* at once, the promise is set and f.get() returns.
DisconnectOnLoop ==
    /\ ~crashed
    /\ Cardinality({i \in DOMAIN disconnectReqs : disconnectReqs[i].who = 0})
           < MaxLoopDisconnects
    /\ \E ub \in UBOutcomes :
          Set(disconnectInLoop(St, 0, ub))
    /\ UNCHANGED <<pendingFunctors, callerPc, promise>>

CallDisconnect == \E c \in Callers : DisconnectCall(c)

ReturnDisconnect == \E c \in Callers : DisconnectReturn(c)

Next ==
    \/ RunStartConnection
    \/ RunDisconnect
    \/ HandleRedisWrite
    \/ HandleRedisRead
    \/ SendCommand
    \/ CallDisconnect
    \/ ReturnDisconnect

\* Threads other than the loop's call disconnect(); continuations return.
Spec == Init /\ [][Next]_vars

\* Continuations may throw, and disconnect() is called on the loop thread.
NextThrows ==
    \/ RunStartConnection
    \/ HandleRedisWrite
    \/ HandleRedisRead
    \/ HandleRedisReadThrows
    \/ SendCommand
    \/ DisconnectOnLoop

ThrowSpec == Init /\ [][NextThrows]_vars

\* disconnect() is called on the loop thread and on other threads, on a
\* connection no command is sent on.
NextDisconnects ==
    \/ RunStartConnection
    \/ RunDisconnect
    \/ HandleRedisWrite
    \/ HandleRedisRead
    \/ DisconnectOnLoop
    \/ CallDisconnect
    \/ ReturnDisconnect

DisconnectSpec == Init /\ [][NextDisconnects]_vars

\* User code sends the first command of the connection.
SendFirstCommand == sendLog = <<>> /\ SendCommand

\* Threads other than the loop's call disconnect() on a connection that one
\* command is sent on.
NextOneCommand ==
    \/ RunStartConnection
    \/ RunDisconnect
    \/ HandleRedisWrite
    \/ HandleRedisRead
    \/ SendFirstCommand
    \/ CallDisconnect
    \/ ReturnDisconnect

\* The same, under a loop that runs the functors queued on it and threads
\* that go on once f.get() can return.
FairDisconnectSpec ==
    /\ Init /\ [][NextOneCommand]_vars
    /\ WF_vars(RunStartConnection)
    /\ WF_vars(RunDisconnect)
    /\ \A c \in Callers : WF_vars(DisconnectReturn(c))

\* Normal operation: no thread calls disconnect().
NextNormal ==
    \/ RunStartConnection
    \/ HandleRedisWrite
    \/ HandleRedisRead
    \/ SendCommand

\* Normal operation under a loop that runs what is ready and a server that
\* answers what it has received.
FairSpec ==
    /\ Init /\ [][NextNormal]_vars
    /\ WF_vars(RunStartConnection)
    /\ WF_vars(HandleRedisWrite)
    /\ WF_vars(HandleRedisRead)

--------------------------------------------------------------------------
\* Vocabulary of the properties.

\* The continuations handleResult has invoked for command k.
Invocations(k) == {i \in 1..Len(dispatchLog) :
                      dispatchLog[i].fired # "none" /\ dispatchLog[i].owner = k}

\* The sendCommandInloop calls hiredis accepted.
Accepted == {k \in 1..Len(sendLog) : sendLog[k].accepted}

\* hiredis reported a failed connect: the error is set on a context that
\* never became connected.
ConnectFailed == redisContext_ = "ctx" /\ ac.err /\ "CONNECTED" \notin ac.flags

\* The connection is no longer up: an I/O error, or a disconnect request.
Down == ac.err \/ "DISCONNECTING" \in ac.flags

\* The forward moves of connected_.
ForwardMoves == {<<kNone, "kConnected">>, <<kNone, "kEnd">>,
                 <<"kConnected", "kEnd">>}

--------------------------------------------------------------------------
\* C1: the k-th handleResult call pops the continuation pair the k-th
\* sendCommandInloop call enqueued, it is the call for the reply to that
\* command, and the continuation it invokes belongs to that command.
Thm_C1_ReplyOrder ==
    \A k \in 1..Len(dispatchLog) :
        /\ dispatchLog[k].popped = k
        /\ dispatchLog[k].replyOf = k
        /\ dispatchLog[k].fired # "none" => dispatchLog[k].owner = k

\* Three commands were pending when the first reply was dispatched, and all
\* three replies have been dispatched.
Wit_C1_ThreePipelined ==
    /\ Len(dispatchLog) = 3
    /\ dispatchLog[1].pending = 3
    /\ \A k \in 1..3 : dispatchLog[k].fired # "none"

\* The commands accepted while kConnected whose continuations have not been
\* invoked.
Unanswered == {k \in Accepted :
                  sendLog[k].state = "kConnected" /\ Invocations(k) = {}}

\* C2: under normal operation, whenever commands accepted while Connected
\* are unanswered, later all of them are answered, unless the connection
\* goes down; and at all times no command has more than one invocation and
\* the invocations are in send order.
Thm_C2_AllAnswered ==
    /\ [](Unanswered # {} => <>(Unanswered = {} \/ Down))
    /\ [](/\ \A k \in 1..MaxCmds : Cardinality(Invocations(k)) <= 1
          /\ \A i, j \in 1..Len(dispatchLog) :
                (i < j /\ dispatchLog[i].fired # "none"
                       /\ dispatchLog[j].fired # "none")
                    => dispatchLog[i].owner < dispatchLog[j].owner)

\* Three commands were sent while Connected and each has had its
\* continuation invoked, with the connection still up.
Wit_C2_ThreeAnswered ==
    /\ ~Down
    /\ Len(sendLog) = 3
    /\ \A k \in 1..3 : sendLog[k].state = "kConnected"
                        /\ Cardinality(Invocations(k)) = 1

\* C3: every handleResult call invokes exactly one continuation of the
\* entry it popped: the failure continuation if and only if the reply is an
\* error reply; and no entry has both continuations or one twice.
Cex_C3_ExactlyOneContinuation ==
    /\ \A i \in 1..Len(dispatchLog) :
          /\ dispatchLog[i].fired # "none"
          /\ dispatchLog[i].owner = dispatchLog[i].popped
          /\ dispatchLog[i].fired = "failure" <=> dispatchLog[i].reply = "ERROR"
    /\ \A k \in 1..MaxCmds : Cardinality(Invocations(k)) <= 1

\* C4: while the process runs on a live context, the pipeline holds as
\* many entries as commands were accepted by hiredis less the handleResult
\* calls.
Cex_C4_PipelineCount ==
    (~crashed /\ touchedFreed = {})
        => Len(commandCallbacks_) = Cardinality(Accepted) - Len(dispatchLog)

\* C5: connected_ only moves forward: kNone to kConnected or kEnd,
\* kConnected to kEnd; nothing leaves kEnd.
Thm_C5_ForwardOnly ==
    [][connected_' # connected_ => <<connected_, connected_'>> \in ForwardMoves]_vars

\* The connection went through kConnected to kEnd and a disconnect() or a
\* send was issued after that.
Wit_C5_EndedThenUsed ==
    /\ connected_ = "kEnd"
    /\ connectCalls # <<>>
    /\ touchedFreed # {}

\* C6: the disconnect handler is never invoked twice, and once a connected
\* context has met an I/O error it has been invoked exactly once.
Cex_C6_DisconnectHandlerOnce ==
    /\ Len(disconnectCalls) <= 1
    /\ ("CONNECTED" \in ac.flags /\ ac.err) => Len(disconnectCalls) = 1

\* C7: once hiredis has reported a failed connect the state is kEnd, the
\* bridge is released, the disconnect handler has been invoked exactly once,
\* with the failure status, the connect handler has not been invoked and no
\* continuation has been invoked.
Thm_C7_FailedConnect ==
    ConnectFailed =>
        /\ connected_ = "kEnd"
        /\ ~channel_.set
        /\ Len(disconnectCalls) = 1
        /\ disconnectCalls[1].status = "REDIS_ERR"
        /\ connectCalls = <<>>
        /\ \A i \in 1..Len(dispatchLog) : dispatchLog[i].fired = "none"

\* The connect failed after a command had been sent, and a disconnect() was
\* carried out afterwards.
Wit_C7_FailedConnect ==
    /\ ConnectFailed
    /\ sendLog # <<>>
    /\ "disconnect" \in touchedFreed

\* C8 as stated: after a failed connect the connect handler has been invoked
\* with the failure status, the state is kEnd and the pipeline is empty if
\* nothing was sent.
Cex_C8_ConnectHandlerOnFailure ==
    ConnectFailed =>
        /\ Len(connectCalls) = 1
        /\ connectCalls[1].status = "REDIS_ERR"
        /\ connected_ = "kEnd"
        /\ sendLog = <<>> => commandCallbacks_ = <<>>

\* C8 as amended: after a failed connect with no command sent, the
\* disconnect handler, and not the connect handler, has been invoked with
\* the failure status, the state is kEnd and both queues are empty.
Thm_C8_DisconnectHandlerOnFailure ==
    (ConnectFailed /\ sendLog = <<>>) =>
        /\ connectCalls = <<>>
        /\ \E i \in 1..Len(disconnectCalls) : disconnectCalls[i].status = "REDIS_ERR"
        /\ connected_ = "kEnd"
        /\ commandCallbacks_ = <<>> /\ exceptionCallbacks_ = <<>>

\* The connect failed and nothing has been sent.
Wit_C8_NoListener ==
    /\ ConnectFailed
    /\ sendLog = <<>>
    /\ disconnectCalls # <<>>

\* C9: a disconnect() never makes a call on the hiredis context after
\* hiredis freed it, and the disconnect handler is not invoked again.
Cex_C9_DisconnectIdempotent ==
    /\ "disconnect" \notin touchedFreed
    /\ Len(disconnectCalls) <= 1 \/ crashed

\* C10 as stated: when disconnect() returns the state is kEnd, the bridge is
\* released and the disconnect handler has been invoked.
Cex_C10_ReturnAfterTeardown ==
    [][\A c \in Callers :
          (callerPc[c] = "waiting" /\ callerPc'[c] = "returned")
              => /\ connected_ = "kEnd"
                 /\ ~channel_.set
                 /\ disconnectCalls # <<>>]_vars

\* The run of the functor for the disconnect() call of thread c.
RequestOf(c) ==
    CHOOSE i \in 1..Len(disconnectReqs) : disconnectReqs[i].who = c

\* C10 as amended: when disconnect() returns, its functor has run on the
\* loop and has made the disconnect request; if the context was live and
\* the state kConnected with no reply pending at that request, the state is
\* kEnd, the bridge is released and the disconnect handler has been invoked.
Thm_C10_ReturnAfterRequest ==
    [][\A c \in Callers :
          (callerPc[c] = "waiting" /\ callerPc'[c] = "returned")
              => /\ \E i \in 1..Len(disconnectReqs) : disconnectReqs[i].who = c
                 /\ "DISCONNECTING" \in ac.flags
                 /\ (/\ disconnectReqs[RequestOf(c)].ctx = "live"
                     /\ disconnectReqs[RequestOf(c)].state = "kConnected"
                     /\ disconnectReqs[RequestOf(c)].pending = 0)
                       => /\ connected_ = "kEnd"
                          /\ ~channel_.set
                          /\ disconnectCalls # <<>>]_vars

\* A disconnect() has returned whose request found the connection connected
\* with nothing pending.
Wit_C10_Returned ==
    \E c \in Callers :
        /\ callerPc[c] = "returned"
        /\ \E i \in 1..Len(disconnectReqs) :
              /\ disconnectReqs[i].who = c
              /\ disconnectReqs[i].ctx = "live"
              /\ disconnectReqs[i].state = "kConnected"
              /\ disconnectReqs[i].pending = 0

\* The runs of the functor queued by the disconnect() call of thread c.
RequestsOf(c) == {i \in 1..Len(disconnectReqs) : disconnectReqs[i].who = c}

\* C11: a disconnect() call from a thread other than the loop's does not
\* deadlock.  Under a loop that runs its queued functors, a thread waiting in
\* f.get() returns later, unless the process has died; the functor of each
\* call runs at most once and the promise of a call is set only by its
\* functor; and while the process lives a queued functor can always be run,
\* whatever the calling threads are doing.
Thm_C11_NoDeadlock ==
    /\ \A c \in Callers :
          [](callerPc[c] = "waiting" => <>(callerPc[c] = "returned" \/ crashed))
    /\ [](\A c \in Callers :
             /\ Cardinality(RequestsOf(c)) <= 1
             /\ promise[c] => RequestsOf(c) # {}
             /\ callerPc[c] = "returned" => promise[c])
    /\ []((~crashed /\ pendingFunctors # <<>>)
             => ENABLED (RunStartConnection \/ RunDisconnect))

\* Two threads have called disconnect() and both calls have returned, the
\* second one after its functor ran on the context hiredis had freed.
Wit_C11_BothReturned ==
    /\ \A c \in Callers : callerPc[c] = "returned"
    /\ "disconnect" \in touchedFreed
    /\ ~crashed

\* The functors of startConnectionInLoop queued on the loop.
StartQueued == {i \in 1..Len(pendingFunctors) : pendingFunctors[i].kind = "start"}

\* C12: the constructor only queues startConnectionInLoop.  When it returns
\* there is no hiredis context and no channel and the setup is queued; as
\* long as the setup is queued there is none and the state is kNone; the
\* setup is queued at most once; and redisContext_ is assigned only by the
\* loop running the queued setup, which leaves it queued no more.
Thm_C12_SetupQueued ==
    /\ (redisContext_ = "null" /\ ~channel_.set /\ Cardinality(StartQueued) = 1)
    /\ [](/\ Cardinality(StartQueued) <= 1
          /\ StartQueued # {} => /\ redisContext_ = "null"
                                 /\ ~channel_.set
                                 /\ connected_ = kNone
          /\ (StartQueued = {} /\ ~crashed) => redisContext_ = "ctx")
    /\ [][redisContext_' # redisContext_
            => /\ Head(pendingFunctors).kind = "start"
               /\ pendingFunctors' = Tail(pendingFunctors)
               /\ redisContext_ = "null"
               /\ StartQueued' = {}]_vars

\* The setup has run and a command has been sent, while a functor of
\* disconnect() that was queued before the setup ran is still queued.
Wit_C12_SetupRan ==
    /\ StartQueued = {}
    /\ redisContext_ = "ctx"
    /\ pendingFunctors # <<>> /\ Head(pendingFunctors).early
    /\ sendLog # <<>>

\* C13: once the state is kEnd the connect callback and the disconnect
\* callback are without effect: no step taken in kEnd changes the state or
\* the channel, or invokes the connect handler or the disconnect handler.
Cex_C13_NoOpAfterEnd ==
    [][connected_ = "kEnd"
          => /\ connected_' = "kEnd"
             /\ channel_' = channel_
             /\ connectCalls' = connectCalls
             /\ disconnectCalls' = disconnectCalls]_vars

\* C14: on every writable event that finds REDIS_DISCONNECTING set in the
\* context's flags, whatever other flags are set, handleRedisWrite disables
\* all events of the channel and removes it before it runs
\* redisAsyncHandleWrite.
Cex_C14_RemovedWhenDisconnecting ==
    \A w \in writeEvents : "DISCONNECTING" \in w.flags => w.removed

\* Sequence p is the front of sequence q.
IsPrefix(p, q) == Len(p) <= Len(q) /\ \A i \in 1..Len(p) : p[i] = q[i]

\* C15: each teardown leaves the state kEnd and the channel released and
\* does not change the two queues; the entries that were pending at the
\* teardown are still in the queues afterwards, and none of their
\* continuations is ever invoked.
Cex_C15_PipelineKept ==
    \A i \in 1..Len(disconnectCalls) :
        LET d == disconnectCalls[i] IN
        /\ d.state = "kEnd" /\ ~d.chan
        /\ d.after = d.before
        /\ IsPrefix(d.after[1], commandCallbacks_)
        /\ IsPrefix(d.after[2], exceptionCallbacks_)
        /\ \A j \in 1..Len(d.after[1]) : Invocations(d.after[1][j]) = {}

\* The entries of the commands sent and not yet handed to handleResult, in
\* send order.
Remaining ==
    [i \in 1..(Len(sendLog) - Len(dispatchLog)) |-> Len(dispatchLog) + i]

\* The handleResult calls whose continuation threw.
Thrown == {k \in 1..Len(dispatchLog) : dispatchLog[k].thrown}

\* C16: a continuation that throws does not corrupt the pipeline.  Once a
\* continuation has thrown, the two queues hold what they would hold had it
\* returned, the entries of the commands not yet handed to handleResult, and
\* every later handleResult call pops the entry of the command its reply
\* answers and invokes a continuation of that command.
Thm_C16_ThrowKeepsPipeline ==
    \A k \in Thrown :
        /\ commandCallbacks_ = Remaining
        /\ exceptionCallbacks_ = Remaining
        /\ \A j \in (k + 1)..Len(dispatchLog) :
              /\ dispatchLog[j].popped = j
              /\ dispatchLog[j].replyOf = j
              /\ dispatchLog[j].fired # "none" => dispatchLog[j].owner = j

\* The continuation of the first command threw with two more commands
\* pending, and the replies to both have been dispatched since.
Wit_C16_RepliesAfterThrow ==
    /\ Len(dispatchLog) = 3
    /\ dispatchLog[1].thrown /\ dispatchLog[1].pending = 3
    /\ dispatchLog[2].fired # "none" /\ dispatchLog[3].fired # "none"

\* State s with event e added to, or taken from, the events of the channel.
WithEvent(s, e, on) ==
    [s EXCEPT !.channel_.events = IF on THEN @ \cup {e} ELSE @ \ {e},
              !.channel_.inPoller = TRUE]

\* C17: no hook has run without a channel (the assert on channel_ in the
\* hooks never fails), and run on the channel at hand in a live process
\* each hook makes its one change to the channel's events and no other.
Thm_C17_HooksOnLiveChannel ==
    /\ ~hookFault
    /\ (channel_.set /\ ~crashed) =>
          /\ addWrite(St) = WithEvent(St, "W", TRUE)
          /\ delWrite(St) = WithEvent(St, "W", FALSE)
          /\ addRead(St) = WithEvent(St, "R", TRUE)
          /\ delRead(St) = WithEvent(St, "R", FALSE)

\* The hooks have run through a connect, a write and a reply, and a command
\* has been sent after the channel was released.
Wit_C17_HooksRan ==
    /\ ~hookFault /\ ~crashed
    /\ dispatchLog # <<>>
    /\ ~channel_.set
    /\ "send" \in touchedFreed

\* C18: the lifecycle handlers see the state after the transition.  The
\* connect handler, invoked for a successful connect, finds kConnected; the
\* disconnect handler finds kEnd and the channel released, and its status
\* is the one hiredis gave: REDIS_ERR exactly when the context has an error.
Thm_C18_HandlersSeePostState ==
    /\ \A i \in 1..Len(connectCalls) :
          /\ connectCalls[i].status = "REDIS_OK"
          /\ connectCalls[i].state = "kConnected"
    /\ \A i \in 1..Len(disconnectCalls) :
          /\ disconnectCalls[i].state = "kEnd"
          /\ ~disconnectCalls[i].chan
          /\ disconnectCalls[i].status = "REDIS_ERR" <=> ac.err

\* Both handlers have been invoked: the connect succeeded and the connection
\* was later closed by a disconnect(), without an error.
Wit_C18_BothHandlers ==
    /\ connectCalls # <<>>
    /\ disconnectCalls # <<>>
    /\ disconnectCalls[1].status = "REDIS_OK"

\* C19: the two queues never desynchronise: they have the same length and
\* their i-th entries belong to the same command, in every state, whatever
\* sends, replies, throwing continuations and disconnects came before.
Thm_C19_QueuesInStep ==
    /\ Len(commandCallbacks_) = Len(exceptionCallbacks_)
    /\ \A i \in 1..Len(commandCallbacks_) :
          commandCallbacks_[i] = exceptionCallbacks_[i]

\* An entry is queued after an error reply was dispatched, a continuation
\* threw and a disconnect() was carried out.
Wit_C19_AfterFaults ==
    /\ commandCallbacks_ # <<>>
    /\ Thrown # {}
    /\ \E k \in 1..Len(dispatchLog) : dispatchLog[k].fired = "failure"
    /\ disconnectReqs # <<>>

\* C20 as stated: whenever the functor of a disconnect() call runs, on
\* whichever thread disconnect() was called, redisContext_ has been set.
Cex_C20_HandleExists ==
    \A i \in 1..Len(disconnectReqs) : disconnectReqs[i].ctx # "null"

\* C20 as amended: whenever the functor of a disconnect() call made on a
\* thread other than the loop's runs, redisContext_ has been set, also when
\* disconnect() was called before the setup ran; the functor of a call made
\* on the loop thread ahead of the setup, which is then still queued, found
\* redisContext_ null.
Thm_C20_HandleExistsOffLoop ==
    \A i \in 1..Len(disconnectReqs) :
        /\ disconnectReqs[i].who # 0 => disconnectReqs[i].ctx # "null"
        /\ (disconnectReqs[i].who = 0 /\ StartQueued # {})
              => disconnectReqs[i].ctx = "null"

\* Two threads called disconnect() before the setup had run (the functor of
\* the second is still queued), and the functor of the first has run on the
\* context the setup created.
Wit_C20_EarlyCall ==
    /\ pendingFunctors # <<>>
    /\ Head(pendingFunctors).who = 2 /\ Head(pendingFunctors).early
    /\ \E i \in 1..Len(disconnectReqs) :
          /\ disconnectReqs[i].who = 1
          /\ disconnectReqs[i].ctx = "live"

==========================================================================
